---------------------------- MODULE Spec2Model ----------------------------
(***************************************************************************)
(* postgres_s3_io: four blocking entry points (s3_object_exists_lazy,      *)
(* s3_create_bucket, s3_put_object, s3_get_object) that resolve their      *)
(* configuration, obtain an S3 client from a process-wide keyed cache      *)
(* (get_or_init_client), drive one request on the shared Tokio runtime     *)
(* and map the outcome to a return value or a reported error.              *)
(*                                                                         *)
(* Strings the code inspects (endpoints, error texts, messages) are        *)
(* sequences: endpoints are sequences of characters, error texts and       *)
(* messages are sequences of words.  Option<T> is a sequence of length     *)
(* at most one.                                                            *)
(***************************************************************************)
EXTENDS Integers, Sequences, FiniteSets, TLC

VARIABLES
    env,        \* the process environment: variable name -> Option<value>
    pc,         \* per thread: where its current call stands
    call,       \* per thread: the arguments and locals of its current call
    budget,     \* calls the host has still to make
    lockHolder, \* Option<thread>: who holds the S3_CLIENTS mutex guard
    poisoned,   \* the mutex's poison flag
    cache,      \* S3_CLIENTS: ClientKey -> client
    builds,     \* ClientKey -> number of runs of the client builder
    nclients,   \* clients constructed so far (the next client's identity)
    runtimes,   \* Tokio runtimes created so far (RT)
    buckets,    \* the backend: existing buckets
    objects,    \* the backend: <<bucket, key>> -> stored payload
    written,    \* <<bucket, key>> -> data argument of the last put that returned
    blockOn     \* thread -> its place in rt().block_on: "out", "core" or "parked"

vars == <<env, pc, call, budget, lockHolder, poisoned, cache, builds,
          nclients, runtimes, buckets, objects, written, blockOn>>

---------------------------------------------------------------------------
(* Option<T> *)

None == <<>>

Some(x) == <<x>>

IsSome(o) == o # None

Get(o) == o[1]

\* Option::unwrap_or: the default is an argument, evaluated by the caller
\* before the call whatever the option holds.
unwrap_or(o, default) == IF IsSome(o) THEN Get(o) ELSE default

\* Option::or
or(o, other) == IF IsSome(o) THEN o ELSE other

---------------------------------------------------------------------------
(* Bounds and input universes *)

\* calls the host makes in the concurrent specifications
MaxCalls == 3

\* calls the host makes in the storage specification
MaxStoreCalls == 4

Procs == {"t1", "t2"}

\* the host threads of the runs that follow three calls at once
Threads == Procs \cup {"t3"}

HttpPrefix == <<"h", "t", "t", "p", ":", "/", "/">>

HttpsPrefix == <<"h", "t", "t", "p", "s", ":", "/", "/">>

\* a schemeless endpoint, as S3_ENDPOINT_URL may hold one
BareHost == <<"m">>

EndpointValues == {BareHost, HttpPrefix \o BareHost, HttpsPrefix \o BareHost}

DefaultRegion == "us-east-1"

EnvNames == {"S3_ENDPOINT_URL", "AWS_ACCESS_KEY_ID",
             "AWS_SECRET_ACCESS_KEY", "AWS_SESSION_TOKEN"}

\* the value a variable holds when it is set
EnvValue(name) ==
    CASE name = "S3_ENDPOINT_URL" -> BareHost
      [] name = "AWS_ACCESS_KEY_ID" -> "minio"
      [] name = "AWS_SECRET_ACCESS_KEY" -> "minio12345"
      [] OTHER -> "envtoken"

Environments == { e \in [EnvNames -> {TRUE, FALSE}] : TRUE }

EnvOf(set) == [n \in EnvNames |-> IF set[n] THEN Some(EnvValue(n)) ELSE None]

FullEnv == [n \in EnvNames |-> Some(EnvValue(n))]

NoOverrides ==
    [endpoint_url |-> None, access_key |-> None, secret_key |-> None,
     session_token |-> None, region |-> None]

Bucket == "test-bucket"

ObjectKey == "hello.txt"

\* byte payloads: the empty one and "Hi"
Payloads == {<<>>, <<72, 105>>}

---------------------------------------------------------------------------
(* Strings *)

starts_with(s, prefix) ==
    /\ Len(s) >= Len(prefix)
    /\ SubSeq(s, 1, Len(prefix)) = prefix

\* str::contains over a text held as a sequence of words
contains(text, word) == \E i \in 1..Len(text) : text[i] = word

RECURSIVE trim_start(_, _)
trim_start(s, c) ==
    IF s # <<>> /\ Head(s) = c THEN trim_start(Tail(s), c) ELSE s

RECURSIVE trim_end(_, _)
trim_end(s, c) ==
    IF s # <<>> /\ s[Len(s)] = c THEN trim_end(SubSeq(s, 1, Len(s) - 1), c) ELSE s

trim_matches(s, c) == trim_end(trim_start(s, c), c)

\* a normalizer that prepends the secure scheme to every input
normalize_endpoint_always_prepend(ep) == HttpsPrefix \o ep

normalize_endpoint(ep) ==
    IF starts_with(ep, HttpPrefix) \/ starts_with(ep, HttpsPrefix)
    THEN ep
    ELSE HttpsPrefix \o ep

---------------------------------------------------------------------------
(* Result<T, String> and what a call ends in *)

Ok(v) == [ok |-> TRUE, v |-> v]

Err(m) == [ok |-> FALSE, v |-> m]

NoOutcome == [kind |-> "none", v |-> <<>>]

\* the handler returns v to the host
Return(v) == [kind |-> "return", v |-> v]

\* pgrx::error!(msg), or a panic carried to the host as an error
Raise(msg) == [kind |-> "error", v |-> msg]

\* match rt().block_on(fut) { Ok(v) => v, Err(e) => pgrx::error!("{e}") }
\* a bridge that hands the host an empty value where the future failed
report_failure_as_default(res) == IF res.ok THEN Return(res.v) ELSE Return(<<>>)

report(res) == IF res.ok THEN Return(res.v) ELSE Raise(res.v)

NotSet == " not set"

\* the class of the spec's taxonomy a reported message belongs to
ErrorClass(msg) ==
    CASE msg[Len(msg)] = NotSet -> "ConfigError"
      [] msg[1] = "AccessDenied for s3://" -> "AccessDenied"
      [] msg[1] = "Dispatch failure: " -> "DispatchFailure"
      [] msg[1] \in {"S3 HeadObject error: ", "CreateBucket failed: ",
                     "PutObject failed: ", "Collect error: "} -> "BackendError"
      [] OTHER -> "Panic"

---------------------------------------------------------------------------
(* get_or_init_client, lines 206-232: the credential resolver *)

\* std::env::var(name).map_err(|_| pgrx::error!(msg)).unwrap()
env_required(e, name, reported) ==
    IF IsSome(e[name]) THEN Ok(Get(e[name])) ELSE Err(<<reported, NotSet>>)

\* the unwrap_or argument is evaluated before unwrap_or is called: the
\* variable is read, and its absence reported, whatever the override holds
resolve_endpoint(ov, e) ==
    LET d == env_required(e, "S3_ENDPOINT_URL", "AWS_SECRET_ACCESS_KEY")
    IN  IF d.ok THEN Ok(normalize_endpoint(unwrap_or(ov, d.v))) ELSE d

resolve_access_key(ov, e) ==
    LET d == env_required(e, "AWS_ACCESS_KEY_ID", "AWS_ACCESS_KEY_ID")
    IN  IF d.ok THEN Ok(unwrap_or(ov, d.v)) ELSE d

\* a resolver that falls back to an empty secret instead of reporting
resolve_secret_key_defaulted(ov, e) ==
    LET d == env_required(e, "AWS_SECRET_ACCESS_KEY", "AWS_SECRET_ACCESS_KEY")
    IN  IF d.ok THEN Ok(unwrap_or(ov, d.v)) ELSE Ok(unwrap_or(ov, ""))

resolve_secret_key(ov, e) ==
    LET d == env_required(e, "AWS_SECRET_ACCESS_KEY", "AWS_SECRET_ACCESS_KEY")
    IN  IF d.ok THEN Ok(unwrap_or(ov, d.v)) ELSE d

\* a resolver that prefers the variable to the override
resolve_session_token_env_first(ov, e) == or(e["AWS_SESSION_TOKEN"], ov)

resolve_session_token(ov, e) == or(ov, e["AWS_SESSION_TOKEN"])

resolve_region(ov) == unwrap_or(ov, DefaultRegion)

\* ep, ak, sk, st, rg in the order the code computes them; the first
\* error raised ends the call
resolve_config(ov, e) ==
    LET ep == resolve_endpoint(ov.endpoint_url, e)
        ak == resolve_access_key(ov.access_key, e)
        sk == resolve_secret_key(ov.secret_key, e)
    IN  IF ~ep.ok THEN ep
        ELSE IF ~ak.ok THEN ak
        ELSE IF ~sk.ok THEN sk
        ELSE Ok([endpoint_url |-> ep.v, access_key |-> ak.v, secret_key |-> sk.v,
                 session_token |-> resolve_session_token(ov.session_token, e),
                 region |-> resolve_region(ov.region)])

---------------------------------------------------------------------------
(* The client cache *)

\* a key that leaves the region out
ClientKey_new_without_region(endpoint_url, access_key, secret_key, region) ==
    [endpoint_url |-> endpoint_url, access_key |-> access_key,
     secret_key |-> secret_key, region |-> DefaultRegion]

ClientKey_new(endpoint_url, access_key, secret_key, region) ==
    [endpoint_url |-> endpoint_url, access_key |-> access_key,
     secret_key |-> secret_key, region |-> region]

\* a key that also tells session tokens apart
KeyOf_with_session_token(cfg) ==
    [endpoint_url |-> cfg.endpoint_url, access_key |-> cfg.access_key,
     secret_key |-> cfg.secret_key, region |-> cfg.region,
     session_token |-> cfg.session_token]

KeyOf(cfg) ==
    ClientKey_new(cfg.endpoint_url, cfg.access_key, cfg.secret_key, cfg.region)

\* the async block handed to block_on: the client assembled from the
\* resolved configuration; id tells one constructed client from another
build_client(cfg, id) ==
    [id |-> id, endpoint_url |-> cfg.endpoint_url, region |-> cfg.region,
     access_key |-> cfg.access_key, secret_key |-> cfg.secret_key,
     session_token |-> cfg.session_token, force_path_style |-> TRUE]

\* HashMap::insert in place of Entry::or_insert: the later build replaces
insert_overwrite(map, k, v) == (k :> v) @@ map

\* Entry::or_insert: the map after the call
or_insert(map, k, v) == IF k \in DOMAIN map THEN map ELSE (k :> v) @@ map

\* OnceLock::get_or_init on RT: the number of runtimes after the call
rt_new_each_call(n) == n + 1
rt(n) == IF n = 0 THEN 1 ELSE n

Count(f, k) == IF k \in DOMAIN f THEN f[k] ELSE 0

Bump(f, k) == (k :> (Count(f, k) + 1)) @@ f

EmptyMap == [k \in {} |-> 0]

---------------------------------------------------------------------------
(* What a request sent through the SDK comes back as: Ok(output) or an     *)
(* SdkError with its variant, the code of its metadata and its Display     *)
(* text.                                                                   *)

SdkOk(body) == [variant |-> "Ok", code |-> None, text |-> <<>>, body |-> body]

ServiceError(code, text) ==
    [variant |-> "ServiceError", code |-> Some(code), text |-> text, body |-> <<>>]

\* a transport failure: no response, no error metadata
DispatchFailure ==
    [variant |-> "DispatchFailure", code |-> None,
     text |-> <<"dispatch failure">>, body |-> <<>>]

\* err.to_string() of a service error: the variant's fixed text, or a text
\* that prints the error's detail, here one holding the digits 404
ErrorTexts(code) == {<<"service error">>, <<code, ": ", "404">>}

ServiceErrors(code) == {ServiceError(code, t) : t \in ErrorTexts(code)}

\* the request does not reach the backend, or the backend refuses it
Failures ==
    {DispatchFailure} \cup ServiceErrors("AccessDenied") \cup ServiceErrors("InternalError")

\* format!("{e:?}") of an SdkError
Debug(err) == <<err.variant>> \o err.code

Buckets == {Bucket}

ObjectKeys == {ObjectKey}

ObjectIds == Buckets \X ObjectKeys

ETag(data) == <<"\"", "md5", ToString(data), "\"">>

\* the ways the response body of a stored payload arrives in two segments
Segmentations(d) == {<<SubSeq(d, 1, i), SubSeq(d, i + 1, Len(d))>> : i \in 0..Len(d)}

\* the backend's answers to the four requests, from its buckets and objects
head_object(bkts, objs, b, k) ==
    IF b \in bkts /\ IsSome(objs[<<b, k>>])
    THEN {SdkOk(<<>>)}
    ELSE ServiceErrors("NotFound")

create_bucket(bkts, b) ==
    IF b \in bkts THEN ServiceErrors("BucketAlreadyOwnedByYou") ELSE {SdkOk(<<>>)}

put_object(bkts, b, data) ==
    IF b \in bkts THEN {SdkOk(Some(ETag(data)))} ELSE ServiceErrors("NoSuchBucket")

get_object(bkts, objs, b, k) ==
    IF b \notin bkts THEN ServiceErrors("NoSuchBucket")
    ELSE IF ~IsSome(objs[<<b, k>>]) THEN ServiceErrors("NoSuchKey")
    ELSE {SdkOk(Ok(segs)) : segs \in Segmentations(Get(objs[<<b, k>>]).body)}
         \cup {SdkOk(Err(<<"StreamingError">>))}

---------------------------------------------------------------------------
(* The handlers' outcome mapping *)

\* an existence check that knows only the NoSuchKey code as "absent"
exists_result_no_such_key_only(resp, bucket, object_key) ==
    IF resp.variant = "Ok" THEN Ok(TRUE)
    ELSE LET code == unwrap_or(resp.code, "")
         IN  IF code = "NoSuchKey" \/ contains(resp.text, "NoSuchKey")
             THEN Ok(FALSE)
             ELSE IF code = "AccessDenied"
             THEN Err(<<"AccessDenied for s3://", bucket, "/", object_key,
                        " (check credentials/policy)">>)
             ELSE Err(<<"S3 HeadObject error: ">> \o resp.text)

\* s3_object_exists_lazy, the match on send().await
exists_result(resp, bucket, object_key) ==
    IF resp.variant = "Ok" THEN Ok(TRUE)
    ELSE LET code == unwrap_or(resp.code, "")
         IN  IF \/ code \in {"NotFound", "NoSuchKey", "404"}
                \/ contains(resp.text, "NotFound")
                \/ contains(resp.text, "NoSuchKey")
                \/ contains(resp.text, "404")
             THEN Ok(FALSE)
             ELSE IF code = "AccessDenied"
             THEN Err(<<"AccessDenied for s3://", bucket, "/", object_key,
                        " (check credentials/policy)">>)
             ELSE Err(<<"S3 HeadObject error: ">> \o resp.text)

\* a create-bucket that treats "already exists" as a normal false
create_result_idempotent(resp) ==
    CASE resp.variant = "Ok" -> Ok(TRUE)
      [] resp.variant = "DispatchFailure" -> Err(<<"Dispatch failure: ">> \o Debug(resp))
      [] resp.code = Some("BucketAlreadyOwnedByYou") -> Ok(FALSE)
      [] OTHER -> Err(<<"CreateBucket failed: ">> \o Debug(resp))

\* s3_create_bucket, the match on send().await
create_result(resp) ==
    CASE resp.variant = "Ok" -> Ok(TRUE)
      [] resp.variant = "DispatchFailure" -> Err(<<"Dispatch failure: ">> \o Debug(resp))
      [] OTHER -> Err(<<"CreateBucket failed: ">> \o Debug(resp))

\* a mapping with one label for every failed request
put_result_one_label(resp) ==
    CASE resp.variant = "Ok" -> Ok(trim_matches(unwrap_or(resp.body, <<>>), "\""))
      [] OTHER -> Err(<<"PutObject failed: ">> \o Debug(resp))

\* s3_put_object, the match on req.send().await
put_result(resp) ==
    CASE resp.variant = "Ok" -> Ok(trim_matches(unwrap_or(resp.body, <<>>), "\""))
      [] resp.variant = "DispatchFailure" -> Err(<<"Dispatch failure: ">> \o Debug(resp))
      [] OTHER -> Err(<<"PutObject failed: ">> \o Debug(resp))

\* a copy that stops after the first segment of the body
to_vec_first_segment(segs) == segs[1]

\* AggregatedBytes::to_vec: the segments copied into one vector
to_vec(segs) == segs[1] \o segs[2]

\* s3_get_object, the match on req.send().await and the collected body
get_result(resp) ==
    CASE resp.variant = "Ok" ->
            IF resp.body.ok THEN Ok(to_vec(resp.body.v))
            ELSE Err(<<"Collect error: ">> \o resp.body.v)
      [] resp.variant = "DispatchFailure" -> Err(<<"Dispatch failure: ">> \o Debug(resp))
      [] OTHER -> Err(<<"PutObject failed: ">> \o Debug(resp))

---------------------------------------------------------------------------
(* Calls *)

IdleCall ==
    [op |-> "none", bucket |-> Bucket, object_key |-> None, data |-> None,
     content_type |-> None, ov |-> NoOverrides, cfg |-> None, fresh |-> None,
     client |-> None, built |-> 0, sent |-> 0, answer |-> None,
     result |-> None, outcome |-> NoOutcome]

\* the arguments of the four entry points
OpArgs(datas, content_types) ==
    {[op |-> "exists", bucket |-> b, object_key |-> Some(k), data |-> None,
      content_type |-> None] : b \in Buckets, k \in ObjectKeys}
    \cup {[op |-> "create", bucket |-> b, object_key |-> None, data |-> None,
           content_type |-> None] : b \in Buckets}
    \cup {[op |-> "put", bucket |-> b, object_key |-> Some(k), data |-> Some(d),
           content_type |-> ct] :
            b \in Buckets, k \in ObjectKeys, d \in datas, ct \in content_types}
    \cup {[op |-> "get", bucket |-> b, object_key |-> Some(k), data |-> None,
           content_type |-> None] : b \in Buckets, k \in ObjectKeys}

Overrides(eps, aks, sks, sts, rgs) ==
    [endpoint_url : eps, access_key : aks, secret_key : sks,
     session_token : sts, region : rgs]

WithOverrides(args, ovs) == {a @@ [ov |-> o] : a \in args, o \in ovs}

\* every combination of present and absent overrides, every endpoint form
ResolveInputs ==
    WithOverrides(OpArgs({<<72, 105>>}, {None}),
                  Overrides({None} \cup {Some(e) : e \in EndpointValues},
                            {None, Some("ak")}, {None, Some("sk")},
                            {None, Some("tok")}, {None, Some("eu-west-1")}))

\* calls of every operation on the environment's configuration, and
\* existence checks that differ from it in session token and region
CacheInputs ==
    WithOverrides(OpArgs({<<72, 105>>}, {None}), {NoOverrides})
    \cup WithOverrides({a \in OpArgs({}, {}) : a.op = "exists"},
                       Overrides({None}, {None}, {None},
                                 {None, Some("tok")}, {None, Some("eu-west-1")}))

\* calls on one configuration that differ in operation and payload
StoreInputs ==
    WithOverrides(OpArgs(Payloads, {None, Some("text/plain")}), {NoOverrides})

\* an entry point is called: get_or_init_client resolves the configuration
\* (lines 206-232) and either raises the configuration error or goes on to
\* the cache
Enter(p, in) ==
    /\ pc[p] \in {"idle", "done"}
    /\ budget > 0
    /\ budget' = budget - 1
    /\ LET r == resolve_config(in.ov, env)
           c == [IdleCall EXCEPT !.op = in.op, !.bucket = in.bucket,
                                 !.object_key = in.object_key, !.data = in.data,
                                 !.content_type = in.content_type, !.ov = in.ov]
       IN  IF r.ok
           THEN /\ call' = [call EXCEPT ![p] = [c EXCEPT !.cfg = Some(r.v)]]
                /\ pc' = [pc EXCEPT ![p] = "lock"]
           ELSE /\ call' = [call EXCEPT ![p] = [c EXCEPT !.outcome = Raise(r.v)]]
                /\ pc' = [pc EXCEPT ![p] = "done"]
    /\ UNCHANGED <<env, lockHolder, poisoned, cache, builds, nclients, runtimes,
                   buckets, objects, written, blockOn>>

\* the panic of unwrap() on the Err(PoisonError) that lock() returns
PoisonMsg == <<"called Result::unwrap() on an Err value: ", "PoisonError">>

\* a cache with one lock per key: only a holder with the same key excludes
Lock_per_key(p) ==
    /\ pc[p] = "lock"
    /\ \/ lockHolder = None
       \/ /\ IsSome(lockHolder)
          /\ KeyOf(Get(call[Get(lockHolder)].cfg)) # KeyOf(Get(call[p].cfg))
    /\ IF poisoned
       THEN /\ call' = [call EXCEPT ![p].outcome = Raise(PoisonMsg)]
            /\ pc' = [pc EXCEPT ![p] = "done"]
            /\ UNCHANGED lockHolder
       ELSE /\ lockHolder' = Some(p)
            /\ pc' = [pc EXCEPT ![p] = "build"]
            /\ UNCHANGED call
    /\ UNCHANGED <<env, budget, poisoned, cache, builds, nclients, runtimes,
                   buckets, objects, written, blockOn>>

\* S3_CLIENTS.get_or_init(..).lock().unwrap().entry(client_key): the receiver
\* of or_insert.  A poisoned mutex makes unwrap panic and the guard is dropped.
Lock(p) ==
    /\ pc[p] = "lock"
    /\ lockHolder = None
    /\ IF poisoned
       THEN /\ call' = [call EXCEPT ![p].outcome = Raise(PoisonMsg)]
            /\ pc' = [pc EXCEPT ![p] = "done"]
            /\ UNCHANGED lockHolder
       ELSE /\ lockHolder' = Some(p)
            /\ pc' = [pc EXCEPT ![p] = "build"]
            /\ UNCHANGED call
    /\ UNCHANGED <<env, budget, poisoned, cache, builds, nclients, runtimes,
                   buckets, objects, written, blockOn>>

\* some thread inside block_on holds the core of the current-thread runtime
\* and so runs its I/O driver
CoreHeld == \E q \in Threads : blockOn[q] = "core"

\* rt().block_on(fut) from its call, or from where the thread stands inside
\* it, to its return.  A thread that has not entered yet goes through in one
\* step.  A future is completed by the I/O the driver delivers, so a thread
\* inside needs the core to be held, by itself or by another thread; on
\* return it gives up the core if it holds it.
Bridge(p) ==
    IF blockOn[p] = "out"
    THEN UNCHANGED blockOn
    ELSE /\ CoreHeld
         /\ blockOn' = [blockOn EXCEPT ![p] = "out"]

\* the thread calls rt().block_on: it takes the core if no thread holds it,
\* otherwise it parks until the core is handed on
EnterBlockOn(p) ==
    /\ pc[p] \in {"build", "send"}
    /\ blockOn[p] = "out"
    /\ blockOn' = [blockOn EXCEPT ![p] = IF CoreHeld THEN "parked" ELSE "core"]
    /\ runtimes' = rt(runtimes)
    /\ UNCHANGED <<env, pc, call, budget, lockHolder, poisoned, cache, builds,
                   nclients, buckets, objects, written>>

\* a runtime whose returning thread wakes nobody: a parked thread stays parked
TakeCore_never_notified(p) ==
    /\ blockOn[p] = "parked"
    /\ FALSE
    /\ blockOn' = [blockOn EXCEPT ![p] = "core"]
    /\ UNCHANGED <<env, pc, call, budget, lockHolder, poisoned, cache, builds,
                   nclients, runtimes, buckets, objects, written>>

\* the thread that returned the core notified a parked thread, which takes it
TakeCore(p) ==
    /\ blockOn[p] = "parked"
    /\ ~CoreHeld
    /\ blockOn' = [blockOn EXCEPT ![p] = "core"]
    /\ UNCHANGED <<env, pc, call, budget, lockHolder, poisoned, cache, builds,
                   nclients, runtimes, buckets, objects, written>>

\* the argument of or_insert, rt().block_on(async { .. }): evaluated with the
\* guard held, before or_insert looks at the entry
Build(p) ==
    /\ pc[p] = "build"
    /\ LET cfg == Get(call[p].cfg)
       IN  /\ builds' = Bump(builds, KeyOf(cfg))
           /\ nclients' = nclients + 1
           /\ call' = [call EXCEPT ![p].fresh = Some(build_client(cfg, nclients + 1)),
                                   ![p].built = 1]
    /\ runtimes' = rt(runtimes)
    /\ pc' = [pc EXCEPT ![p] = "insert"]
    /\ Bridge(p)
    /\ UNCHANGED <<env, budget, lockHolder, poisoned, cache, buckets, objects, written>>

BuildPanicMsg == <<"client construction panicked">>

\* the builder panics (the runtime cannot be built, the SDK configuration is
\* rejected): the unwinding drops the guard, which poisons the mutex
BuildAbort(p) ==
    /\ pc[p] = "build"
    /\ builds' = Bump(builds, KeyOf(Get(call[p].cfg)))
    /\ \E r \in {runtimes, rt(runtimes)} : runtimes' = r
    /\ poisoned' = TRUE
    /\ lockHolder' = None
    /\ call' = [call EXCEPT ![p].outcome = Raise(BuildPanicMsg), ![p].built = 1]
    /\ pc' = [pc EXCEPT ![p] = "done"]
    /\ blockOn' = [blockOn EXCEPT ![p] = "out"]
    /\ UNCHANGED <<env, budget, cache, nclients, buckets, objects, written>>

\* .or_insert(fresh).clone(), and the guard dropped at the end of the statement
OrInsert(p) ==
    /\ pc[p] = "insert"
    /\ LET k == KeyOf(Get(call[p].cfg))
       IN  /\ cache' = or_insert(cache, k, Get(call[p].fresh))
           /\ call' = [call EXCEPT ![p].client = Some(cache'[k]), ![p].fresh = None]
    /\ lockHolder' = None
    /\ pc' = [pc EXCEPT ![p] = "send"]
    /\ UNCHANGED <<env, budget, poisoned, builds, nclients, runtimes,
                   buckets, objects, written, blockOn>>

\* what the handler's match sees of the answer to its request
Answer(resp) == [variant |-> resp.variant, code |-> resp.code, text |-> resp.text]

\* a handler that sends a failed request once more before it reports
Finish_with_retry(p, resp, result) ==
    /\ IF ~result.ok /\ call[p].sent = 0
       THEN /\ call' = [call EXCEPT ![p].sent = @ + 1]
            /\ UNCHANGED pc
       ELSE /\ call' = [call EXCEPT ![p].outcome = report(result), ![p].sent = @ + 1,
                                    ![p].answer = Some(Answer(resp)),
                                    ![p].result = Some(result)]
            /\ pc' = [pc EXCEPT ![p] = "done"]
    /\ runtimes' = rt(runtimes)
    /\ Bridge(p)
    /\ UNCHANGED <<env, budget, lockHolder, poisoned, cache, builds, nclients>>

\* the request has been answered: block_on returns and the handler reports
Finish(p, resp, result) ==
    /\ call' = [call EXCEPT ![p].outcome = report(result), ![p].sent = @ + 1,
                            ![p].answer = Some(Answer(resp)),
                            ![p].result = Some(result)]
    /\ pc' = [pc EXCEPT ![p] = "done"]
    /\ runtimes' = rt(runtimes)
    /\ Bridge(p)
    /\ UNCHANGED <<env, budget, lockHolder, poisoned, cache, builds, nclients>>

\* s3_object_exists_lazy after get_or_init_client
HeadObject(p) ==
    /\ pc[p] = "send"
    /\ call[p].op = "exists"
    /\ LET b == call[p].bucket
           k == Get(call[p].object_key)
       IN  \E resp \in head_object(buckets, objects, b, k) \cup Failures :
              Finish(p, resp, exists_result(resp, b, k))
    /\ UNCHANGED <<buckets, objects, written>>

\* s3_create_bucket after get_or_init_client
CreateBucket(p) ==
    /\ pc[p] = "send"
    /\ call[p].op = "create"
    /\ LET b == call[p].bucket
       IN  \E resp \in create_bucket(buckets, b) \cup Failures :
              /\ Finish(p, resp, create_result(resp))
              /\ buckets' = IF resp.variant = "Ok" THEN buckets \cup {b} ELSE buckets
    /\ UNCHANGED <<objects, written>>

\* ByteStream::from(data) with the optional content type, as the backend
\* stores it
StoredObject(data, content_type) == [body |-> data, content_type |-> content_type]

\* s3_put_object after get_or_init_client
PutObject(p) ==
    /\ pc[p] = "send"
    /\ call[p].op = "put"
    /\ LET b == call[p].bucket
           k == Get(call[p].object_key)
           d == Get(call[p].data)
       IN  \E resp \in put_object(buckets, b, d) \cup Failures :
              /\ Finish(p, resp, put_result(resp))
              /\ IF resp.variant = "Ok"
                 THEN /\ objects' = [objects EXCEPT ![<<b, k>>] =
                                        Some(StoredObject(d, call[p].content_type))]
                      /\ written' = [written EXCEPT ![<<b, k>>] = Some(d)]
                 ELSE UNCHANGED <<objects, written>>
    /\ UNCHANGED buckets

\* s3_get_object after get_or_init_client
GetObject(p) ==
    /\ pc[p] = "send"
    /\ call[p].op = "get"
    /\ LET b == call[p].bucket
           k == Get(call[p].object_key)
       IN  \E resp \in get_object(buckets, objects, b, k) \cup Failures :
              Finish(p, resp, get_result(resp))
    /\ UNCHANGED <<buckets, objects, written>>

---------------------------------------------------------------------------
(* Specifications *)

InitWith(e, n) ==
    /\ env = e
    /\ pc = [p \in Threads |-> "idle"]
    /\ call = [p \in Threads |-> IdleCall]
    /\ budget = n
    /\ lockHolder = None
    /\ poisoned = FALSE
    /\ cache = EmptyMap
    /\ builds = EmptyMap
    /\ nclients = 0
    /\ runtimes = 0
    /\ buckets = {}
    /\ objects = [o \in ObjectIds |-> None]
    /\ written = [o \in ObjectIds |-> None]
    /\ blockOn = [p \in Threads |-> "out"]

Steps(p) ==
    \/ Lock(p)
    \/ Build(p)
    \/ BuildAbort(p)
    \/ OrInsert(p)
    \/ HeadObject(p)
    \/ CreateBucket(p)
    \/ PutObject(p)
    \/ GetObject(p)

\* concurrent calls over configurations that share or differ in their key
Init == InitWith(FullEnv, MaxCalls)

Next == \E p \in Procs : (\E in \in CacheInputs : Enter(p, in)) \/ Steps(p)

Spec == Init /\ [][Next]_vars

\* one call, over every environment and every combination of overrides
InitResolve == \E set \in Environments : InitWith(EnvOf(set), 1)

NextResolve == \E p \in Procs : (\E in \in ResolveInputs : Enter(p, in)) \/ Steps(p)

SpecResolve == InitResolve /\ [][NextResolve]_vars

\* calls against the backend on the environment's configuration
InitStore == InitWith(FullEnv, MaxStoreCalls)

NextStore == \E p \in Procs : (\E in \in StoreInputs : Enter(p, in)) \/ Steps(p)

SpecStore == InitStore /\ [][NextStore]_vars

\* three threads calling at once, each step of block_on on its own
MaxLiveCalls == 3

\* existence checks on the environment's configuration
LiveInputs == WithOverrides({a \in OpArgs({}, {}) : a.op = "exists"}, {NoOverrides})

InitLive == InitWith(FullEnv, MaxLiveCalls)

NextLive ==
    \E p \in Threads :
        \/ \E in \in LiveInputs : Enter(p, in)
        \/ Lock(p)
        \/ EnterBlockOn(p)
        \/ TakeCore(p)
        \/ Build(p)
        \/ BuildAbort(p)
        \/ OrInsert(p)
        \/ HeadObject(p)

\* what a thread does by itself once it is scheduled; a panic of the builder
\* is possible but not owed
Progress(p) ==
    \/ Lock(p)
    \/ Build(p)
    \/ OrInsert(p)
    \/ HeadObject(p)
    \/ TakeCore(p)

\* every thread is scheduled again and again, and the back end answers
SpecLive == InitLive /\ [][NextLive]_vars /\ \A p \in Threads : WF_vars(Progress(p))

---------------------------------------------------------------------------
(* Properties *)

RequiredFields ==
    {<<"endpoint_url", "S3_ENDPOINT_URL">>, <<"access_key", "AWS_ACCESS_KEY_ID">>,
     <<"secret_key", "AWS_SECRET_ACCESS_KEY">>}

\* the field is absent from the call's overrides and from the environment
Missing(c, f) == c.ov[f[1]] = None /\ env[f[2]] = None

IsConfigError(o) == o.kind = "error" /\ ErrorClass(o.v) = "ConfigError"

\* the request of thread p is answered in this step
Answered(p, op) == pc[p] = "send" /\ pc'[p] = "done" /\ call[p].op = op

\* the answer came from the backend serving the request
Served(c) == IsSome(c.answer) /\ \A f \in Failures : Answer(f) # Get(c.answer)

ObjectId(c) == <<c.bucket, Get(c.object_key)>>

Returned(o, v) == o.kind = "return" /\ o.v = v

Raised(o, msg) == o.kind = "error" /\ o.v = msg

\* C1: for every resolved key the client builder runs at most once, and a
\* call that finds its key in the cache constructs no client.
C1_BuilderRunsOncePerKey ==
    /\ \A k \in DOMAIN builds : builds[k] <= 1
    /\ \A p \in Procs :
          IsSome(call[p].fresh) => KeyOf(Get(call[p].cfg)) \notin DOMAIN cache

\* C2: an entry of the cache is never removed and never replaced, and every
\* call that has obtained a client holds the client cached under its key, so
\* calls that resolve to the same key hold the client of the first insertion.
C2_SameKeySameClient ==
    [][/\ \A k \in DOMAIN cache : k \in DOMAIN cache' /\ cache'[k] = cache[k]
       /\ \A p \in Procs :
             IsSome(call'[p].client) =>
                /\ KeyOf(Get(call'[p].cfg)) \in DOMAIN cache'
                /\ Get(call'[p].client) = cache'[KeyOf(Get(call'[p].cfg))]]_vars

\* two calls with one key hold one client although the builder ran twice
C2_Witness ==
    \E p, q \in Procs :
        /\ p # q
        /\ IsSome(call[p].client) /\ IsSome(call[q].client)
        /\ KeyOf(Get(call[p].cfg)) = KeyOf(Get(call[q].cfg))
        /\ call[p].client = call[q].client
        /\ nclients >= 2

\* C3: a call without a secret-key override, made while
\* AWS_SECRET_ACCESS_KEY is unset, ends in a configuration error, having
\* built no client, inserted no cache entry and sent no request.
C3_MissingSecretFailsFast ==
    \A p \in Procs :
        (pc[p] # "idle" /\ Missing(call[p], <<"secret_key", "AWS_SECRET_ACCESS_KEY">>)) =>
            /\ pc[p] = "done"
            /\ IsConfigError(call[p].outcome)
            /\ call[p].built = 0
            /\ call[p].fresh = None /\ call[p].client = None
            /\ call[p].sent = 0
            /\ cache = EmptyMap /\ nclients = 0

\* the secret key alone is missing and the call has reported it
C3_Witness ==
    \E p \in Procs :
        /\ pc[p] = "done"
        /\ call[p].op = "put"
        /\ Missing(call[p], <<"secret_key", "AWS_SECRET_ACCESS_KEY">>)
        /\ IsSome(env["S3_ENDPOINT_URL"]) /\ IsSome(env["AWS_ACCESS_KEY_ID"])
        /\ Raised(call[p].outcome, <<"AWS_SECRET_ACCESS_KEY", NotSet>>)

\* C4: a call ends in a configuration error exactly when some required field
\* has neither an override nor its environment variable; the environment is
\* not consulted for a field whose override is given.
C4_EnvConsultedOnlyWithoutOverride ==
    \A p \in Procs :
        pc[p] # "idle" =>
            (IsConfigError(call[p].outcome)
                <=> \E f \in RequiredFields : Missing(call[p], f))

\* C5: after a client construction has failed the cache stays usable: no
\* call, with the same key or another, fails because the failure left the
\* cache's mutex poisoned.
C5_FailedBuildLeavesCacheUsable ==
    \A p \in Procs : ~Raised(call[p].outcome, PoisonMsg)

\* C6: an existence check that the backend serves on an existing bucket
\* returns true when a put of that bucket and key has returned, and returns
\* false when none has.
C6_ExistsTrueAndFalse ==
    [][\A p \in Procs :
          (/\ Answered(p, "exists")
           /\ call[p].bucket \in buckets
           /\ Served(call'[p])) =>
              Returned(call'[p].outcome, IsSome(written[ObjectId(call[p])]))]_vars

\* on one bucket, one check has returned false and a later one true
C6_Witness ==
    \E p, q \in Procs :
        /\ pc[p] = "done" /\ pc[q] = "done"
        /\ call[p].op = "exists" /\ call[q].op = "exists"
        /\ Served(call[p]) /\ Served(call[q])
        /\ Returned(call[p].outcome, FALSE)
        /\ Returned(call[q].outcome, TRUE)
        /\ call[p].bucket \in buckets

\* C7: an existence check answered with an AccessDenied error ends in an
\* AccessDenied failure whose message holds the bucket and the object key.
C7_AccessDeniedIsReported ==
    \A p \in Procs :
        (/\ pc[p] = "done"
         /\ call[p].op = "exists"
         /\ IsSome(call[p].answer)
         /\ Get(call[p].answer).code = Some("AccessDenied")) =>
            /\ call[p].outcome.kind = "error"
            /\ ErrorClass(call[p].outcome.v) = "AccessDenied"
            /\ contains(call[p].outcome.v, call[p].bucket)
            /\ contains(call[p].outcome.v, Get(call[p].object_key))

\* C8: a get that returns a value returns the bytes of the last put of that
\* bucket and key that returned.
C8_PutGetRoundTrip ==
    [][\A p \in Procs :
          (Answered(p, "get") /\ call'[p].outcome.kind = "return") =>
              /\ IsSome(written[ObjectId(call[p])])
              /\ call'[p].outcome.v = Get(written[ObjectId(call[p])])]_vars

\* a get has returned the two bytes a put stored
C8_Witness ==
    \E p \in Procs :
        /\ pc[p] = "done"
        /\ call[p].op = "get"
        /\ Returned(call[p].outcome, <<72, 105>>)
        /\ written[ObjectId(call[p])] = Some(<<72, 105>>)

\* C9: a create-bucket that the backend serves returns true when the bucket
\* did not exist, and ends in a reported failure when it did.
C9_CreateBucketTwice ==
    [][\A p \in Procs :
          (Answered(p, "create") /\ Served(call'[p])) =>
              IF call[p].bucket \notin buckets
              THEN Returned(call'[p].outcome, TRUE) /\ call[p].bucket \in buckets'
              ELSE call'[p].outcome.kind = "error"]_vars

\* one create-bucket has returned true and a second one has been refused
C9_Witness ==
    \E p, q \in Procs :
        /\ pc[p] = "done" /\ pc[q] = "done"
        /\ call[p].op = "create" /\ call[q].op = "create"
        /\ call[p].bucket = call[q].bucket
        /\ Returned(call[p].outcome, TRUE)
        /\ call[q].outcome.kind = "error"
        /\ IsSome(call[q].answer)
        /\ Get(call[q].answer).code = Some("BucketAlreadyOwnedByYou")

\* the two configurations differ in region and in nothing else of the key
DifferOnlyInRegion(a, b) ==
    /\ a.region # b.region
    /\ a.endpoint_url = b.endpoint_url
    /\ a.access_key = b.access_key
    /\ a.secret_key = b.secret_key

HasScheme(ep) == starts_with(ep, HttpPrefix) \/ starts_with(ep, HttpsPrefix)

\* the endpoint string a call supplies: its override, else S3_ENDPOINT_URL
SuppliedEndpoint(c) == unwrap_or(c.ov.endpoint_url, Get(env["S3_ENDPOINT_URL"]))

\* C11: the resolved endpoint is the supplied one when that begins with
\* "http://" or "https://" and "https://" followed by it otherwise; every
\* cache key and every cached client carries an endpoint with a scheme, and
\* normalising a normalised endpoint changes nothing.
C11_EndpointNormalized ==
    /\ \A p \in Procs :
          IsSome(call[p].cfg) =>
              LET given == SuppliedEndpoint(call[p])
                  ep == Get(call[p].cfg).endpoint_url
              IN  /\ HasScheme(given) => ep = given
                  /\ ~HasScheme(given) => ep = HttpsPrefix \o given
                  /\ normalize_endpoint(ep) = ep
    /\ \A k \in DOMAIN cache :
          /\ HasScheme(k.endpoint_url)
          /\ cache[k].endpoint_url = k.endpoint_url

\* a schemeless override and an "http://" override have each been cached
C11_Witness ==
    \E p \in Procs :
        /\ IsSome(call[p].client)
        /\ call[p].ov.endpoint_url \in {Some(BareHost), Some(HttpPrefix \o BareHost)}
        /\ KeyOf(Get(call[p].cfg)) \in DOMAIN cache
        /\ Get(call[p].client).endpoint_url \in
              {HttpsPrefix \o BareHost, HttpPrefix \o BareHost}

\* a call that has driven a future to completion on the runtime: its client
\* build returned, or its request was answered
UsedRuntime(c) == IsSome(c.fresh) \/ IsSome(c.client) \/ c.sent = 1

\* C12: at most one runtime is ever created, every call that has run a
\* future finds exactly that one, and the runtime appears only in a step that
\* runs a future (a client build or a storage request), never before.
C12_OneSharedRuntime ==
    /\ [](/\ runtimes <= 1
          /\ \A p \in Procs : UsedRuntime(call[p]) => runtimes = 1)
    /\ [][runtimes' # runtimes =>
              /\ runtimes = 0
              /\ runtimes' = 1
              /\ \E p \in Procs : pc[p] \in {"build", "send"} /\ pc'[p] # pc[p]]_vars

\* two threads have each run futures, and one runtime exists
C12_Witness ==
    /\ runtimes = 1
    /\ \E p, q \in Procs :
          /\ p # q
          /\ call[p].built = 1 /\ call[p].sent = 1
          /\ call[q].built = 1 /\ call[q].sent = 1

\* C13: a finished call has either returned a value or raised one error, a
\* running call has done neither, and the output of the future a call drove
\* is handed on as it is: Ok(v) is returned as v, Err(e) is raised as e.
C13_FailureAlwaysReported ==
    \A p \in Procs :
        /\ pc[p] = "done" <=> call[p].outcome.kind \in {"return", "error"}
        /\ pc[p] # "done" <=> call[p].outcome.kind = "none"
        /\ IsSome(call[p].result) =>
              LET res == Get(call[p].result)
              IN  IF res.ok
                  THEN Returned(call[p].outcome, res.v)
                  ELSE Raised(call[p].outcome, res.v)

\* one call has returned the value of its future while another has raised
\* the failure of its own
C13_Witness ==
    \E p, q \in Procs :
        /\ pc[p] = "done" /\ IsSome(call[p].result) /\ Get(call[p].result).ok
        /\ call[p].outcome.kind = "return"
        /\ pc[q] = "done" /\ IsSome(call[q].result) /\ ~Get(call[q].result).ok
        /\ call[q].outcome.kind = "error"

\* the class of the error a call raised is cls
RaisedClass(c, cls) == c.outcome.kind = "error" /\ ErrorClass(c.outcome.v) = cls

\* C14: create-bucket, put-object and get-object report a request that failed
\* in transport as a DispatchFailure error, a request the back end rejected
\* as a BackendError error, and a get-object body that could not be
\* collected after a successful response as a BackendError error.
C14_DispatchAndBackendApart ==
    \A p \in Procs :
        (call[p].op \in {"create", "put", "get"} /\ IsSome(call[p].answer)) =>
            LET a == Get(call[p].answer)
            IN  /\ a.variant = "DispatchFailure" => RaisedClass(call[p], "DispatchFailure")
                /\ a.variant = "ServiceError" => RaisedClass(call[p], "BackendError")
                /\ (a.variant = "Ok" /\ call[p].outcome.kind = "error") =>
                       RaisedClass(call[p], "BackendError")

\* a put-object has failed in transport while a get-object has lost its body
\* after a successful response
C14_Witness ==
    \E p, q \in Procs :
        /\ call[p].op = "put" /\ IsSome(call[p].answer)
        /\ Get(call[p].answer).variant = "DispatchFailure"
        /\ call[p].outcome.kind = "error"
        /\ call[q].op = "get" /\ IsSome(call[q].answer)
        /\ Get(call[q].answer).variant = "Ok"
        /\ call[q].outcome.kind = "error"

\* the variables whose absence get_or_init_client reports
RequiredVariables == {f[2] : f \in RequiredFields}

\* C15: the session token of a resolved configuration is the override when
\* one is given, else the variable's value, else absent, and its region is
\* the override, else "us-east-1"; with the three required variables set a
\* call never ends in a configuration error, whatever token and region are,
\* and a configuration error names neither of the two.
C15_TokenAndRegionNeverFail ==
    \A p \in Procs :
        /\ IsSome(call[p].cfg) =>
              /\ Get(call[p].cfg).session_token =
                    (IF IsSome(call[p].ov.session_token) THEN call[p].ov.session_token
                     ELSE env["AWS_SESSION_TOKEN"])
              /\ Get(call[p].cfg).region =
                    (IF IsSome(call[p].ov.region) THEN Get(call[p].ov.region)
                     ELSE DefaultRegion)
        /\ IsConfigError(call[p].outcome) =>
              /\ \E name \in RequiredVariables : env[name] = None
              /\ call[p].outcome.v[1] \in RequiredVariables
        /\ (call[p].op # "none" /\ \A name \in RequiredVariables : IsSome(env[name])) =>
              IsSome(call[p].cfg)

\* a call without token and region, in an environment without the token
\* variable, has resolved to no token and the default region
C15_Witness ==
    \E p \in Procs :
        /\ IsSome(call[p].cfg)
        /\ call[p].ov.session_token = None /\ call[p].ov.region = None
        /\ env["AWS_SESSION_TOKEN"] = None
        /\ Get(call[p].cfg).session_token = None
        /\ Get(call[p].cfg).region = DefaultRegion

\* C16: a configuration error names a required variable that is in fact
\* unset; the absence of one field is never reported under the name of
\* another.
C16_ConfigErrorNamesMissingField ==
    \A p \in Procs :
        IsConfigError(call[p].outcome) =>
            \E f \in RequiredFields :
                /\ call[p].outcome.v = <<f[2], NotSet>>
                /\ env[f[2]] = None

\* the thread is between taking the guard and dropping it: it builds the
\* client or inserts it
InCriticalSection(p) == pc[p] \in {"build", "insert"}

\* C17: the build and the insertion of a client happen with the one guard of
\* the cache held: the thread doing either is the holder of the lock, so no
\* two threads are ever there together whatever their keys, and no thread
\* starts a lookup or a build while another is building.
C17_OneCriticalSection ==
    /\ [](\A p, q \in Procs :
              /\ InCriticalSection(p) <=> lockHolder = Some(p)
              /\ (InCriticalSection(p) /\ InCriticalSection(q)) => p = q)
    /\ [][\A p, q \in Procs :
              (p # q /\ pc[q] = "build") => (pc[p] = "lock" => pc'[p] = "lock")]_vars

\* one thread is building while another, whose key differs, waits for the lock
C17_Witness ==
    \E p, q \in Procs :
        /\ pc[q] = "build" /\ lockHolder = Some(q)
        /\ pc[p] = "lock"
        /\ KeyOf(Get(call[p].cfg)) # KeyOf(Get(call[q].cfg))

\* C18: a call sends at most one request, and sends it with its
\* configuration resolved and its client taken from the cache; the answer,
\* failure or not, ends the call, which sends nothing more.
C18_OneRequestNoRetry ==
    /\ [](\A p \in Procs :
              /\ call[p].sent <= 1
              /\ call[p].sent = 1 =>
                    /\ pc[p] = "done"
                    /\ IsSome(call[p].cfg)
                    /\ IsSome(call[p].client)
                    /\ Get(call[p].client) = cache[KeyOf(Get(call[p].cfg))])
    /\ [][\A p \in Procs :
              call'[p].sent > call[p].sent =>
                  /\ pc[p] = "send" /\ pc'[p] = "done"
                  /\ IsSome(call[p].client)
                  /\ call[p].sent = 0]_vars

\* a call whose one request failed has raised the failure and is done
C18_Witness ==
    \E p \in Procs :
        /\ pc[p] = "done" /\ call[p].sent = 1
        /\ IsSome(call[p].result) /\ ~Get(call[p].result).ok
        /\ call[p].outcome.kind = "error"

DifferOnlyInSessionToken(a, b) ==
    /\ a.session_token # b.session_token
    /\ a.endpoint_url = b.endpoint_url
    /\ a.access_key = b.access_key
    /\ a.secret_key = b.secret_key
    /\ a.region = b.region

\* the thread leaves or_insert having put its own client under a new key
Inserts(p) ==
    /\ pc[p] = "insert" /\ pc'[p] = "send"
    /\ KeyOf(Get(call[p].cfg)) \notin DOMAIN cache

\* C19: two calls whose configurations differ only in the session token
\* have one key and are handed one client; the entry of a key carries the
\* session token of the call that inserted it, and no later call changes it.
C19_SessionTokenOfFirstInserter ==
    /\ [](\A p, q \in Procs :
              (/\ IsSome(call[p].client) /\ IsSome(call[q].client)
               /\ DifferOnlyInSessionToken(Get(call[p].cfg), Get(call[q].cfg))) =>
                  /\ KeyOf(Get(call[p].cfg)) = KeyOf(Get(call[q].cfg))
                  /\ Get(call[p].client) = Get(call[q].client))
    /\ [][/\ \A k \in DOMAIN cache :
                k \in DOMAIN cache' /\ cache'[k].session_token = cache[k].session_token
          /\ \A p \in Procs :
                Inserts(p) =>
                    cache'[KeyOf(Get(call[p].cfg))].session_token =
                        Get(call[p].cfg).session_token]_vars

\* a call has been handed a client whose session token is not the one the
\* call resolved
C19_Witness ==
    \E p \in Procs :
        /\ IsSome(call[p].client)
        /\ Get(call[p].client).session_token # Get(call[p].cfg).session_token
        /\ Get(call[p].client) = cache[KeyOf(Get(call[p].cfg))]

\* C20: with every thread scheduled fairly and every request answered, a
\* call that has started ends: it returns or it raises.
C20_EveryCallEnds ==
    \A p \in Threads : (pc[p] \notin {"idle", "done"}) ~> (pc[p] = "done")

\* one thread holds the lock and builds inside block_on, a second waits for
\* the lock, a third is inside block_on with its own request
C20_Witness ==
    \E p, q, r \in Threads :
        /\ pc[p] = "build" /\ lockHolder = Some(p) /\ blockOn[p] # "out"
        /\ pc[q] = "lock"
        /\ pc[r] = "send" /\ blockOn[r] # "out"
        /\ \E t \in {p, r} : blockOn[t] = "parked"

===========================================================================
